---- MODULE Spec2Model ----
(***************************************************************************)
(* A model of the go-ecies library (src/ecies.go and the ASN.1 key         *)
(* serialization of src/unnamed/part_000).                                 *)
(*                                                                         *)
(* Byte strings are sequences of naturals in 0..255 and every length,      *)
(* offset and slice of the code is kept at its real value (a P-256 frame   *)
(* for a 5-byte plaintext has 118 bytes).  The primitives the library      *)
(* takes from outside are idealised:                                       *)
(*   - the curve library is a prime-order group: the curve                 *)
(*     y^2 = x^3 + x + 4 over F_3583 (3659 points, generator (2,224))      *)
(*     stands for the arithmetic of every named curve, while the curve     *)
(*     identity and Params().BitSize are those of the named curve.  Like   *)
(*     the primes of P-256, P-384 and P-521 the prime 3583 is -1 mod 512,  *)
(*     so y and p - y never agree in a byte and a point and its negative   *)
(*     differ in more than one byte of the encoding;                       *)
(*   - SHA-2, HMAC and the AES block function are a random oracle with a   *)
(*     collision-free table: the table (variable oracle) holds the inputs  *)
(*     queried so far and the digest of the k-th distinct input is the     *)
(*     byte k repeated to the digest's size.                               *)
(* A Go run-time panic (slice bounds, nil function value) is the outcome   *)
(* "panic".                                                                *)
(***************************************************************************)
EXTENDS Integers, Sequences, FiniteSets, TLC

VARIABLES oracle, gen, rcpt, peer, enc, dec, ecdh, der, imp, kdf

vars == <<oracle, gen, rcpt, peer, enc, dec, ecdh, der, imp, kdf>>

----------------------------------------------------------------------------
(* Bounds of the model. *)

\* Longest plaintext handed to Encrypt.
MaxMsgLen == 5

\* Largest key-data length asked of concatKDF directly.
MaxKdLen == 64

\* Largest number of bytes cut from the end of a frame in transit.
MaxCut == 2

----------------------------------------------------------------------------
(* Byte strings. *)

Min(a, b) == IF a < b THEN a ELSE b

\* F(v), with v computed once and then bound to F's parameter.
Let(v, F(_)) == CHOOSE y \in {F(r) : r \in {v}} : TRUE

Zeros(n) == [j \in 1..n |-> 0]

\* s[lo:hi] of Go, 0-based, for 0 <= lo <= hi <= len(s).
Slice(s, lo, hi) == SubSeq(s, lo + 1, hi)

\* big.Int.Bytes: the minimal big-endian encoding (empty for 0).
RECURSIVE BigBytes(_)
BigBytes(x) == IF x = 0 THEN <<>> ELSE Append(BigBytes(x \div 256), x % 256)

\* big.Int.FillBytes into a buffer of n bytes: left-padded with zeros.
FillBytes(x, n) == Zeros(n - Len(BigBytes(x))) \o BigBytes(x)

\* A value no coordinate of the group reaches: big-endian decoding saturates
\* there, so that a comparison with the field prime stays exact.
Saturate == 65536

\* big.Int.SetBytes, saturating at Saturate: the two low bytes give the value
\* unless a higher byte is set.
SetBytes(b) ==
    LET n == Len(b)
    IN  IF \E j \in 1..(n - 2) : b[j] # 0 THEN Saturate
        ELSE (IF n >= 2 THEN 256 * b[n - 1] ELSE 0) + (IF n >= 1 THEN b[n] ELSE 0)

\* The exclusive or of two bytes.
RECURSIVE XorByte(_, _)
XorByte(a, b) ==
    IF a = 0 THEN b
    ELSE IF b = 0 THEN a
    ELSE 2 * XorByte(a \div 2, b \div 2) + ((a + b) % 2)

----------------------------------------------------------------------------
(* The curve library (crypto/elliptic), over the stand-in group. *)

Curves == {"P224", "P256", "P384", "P521"}

\* elliptic.Curve.Params().BitSize
BitSize(curve) ==
    CASE curve = "P224" -> 224
      [] curve = "P256" -> 256
      [] curve = "P384" -> 384
      [] curve = "P521" -> 521

\* The field prime and the coefficients of the stand-in curve.
FieldP == 3583
CurveA == 1
CurveB == 4

Infinity == [inf |-> TRUE, x |-> 0, y |-> 0]
Pt(x, y) == [inf |-> FALSE, x |-> x, y |-> y]
BasePoint == Pt(2, 224)

\* The product of two field elements.
MulMod(v, w) == ((v % FieldP) * (w % FieldP)) % FieldP

\* v^e in the field, by squaring.
RECURSIVE PowMod(_, _)
PowMod(v, e) ==
    IF e = 0 THEN 1
    ELSE Let(PowMod(v, e \div 2), LAMBDA h :
         Let(MulMod(h, h), LAMBDA sq :
             IF e % 2 = 1 THEN MulMod(sq, v) ELSE sq))

\* The inverse of v in the field.
ModInv(v) == PowMod(v, FieldP - 2)

\* Curve.IsOnCurve
IsOnCurve(x, y) ==
    /\ x < FieldP
    /\ y < FieldP
    /\ MulMod(y, y) = (MulMod(MulMod(x, x), x) + CurveA * x + CurveB) % FieldP

\* The slope of the chord through P and Q, or of the tangent at P = Q.
Slope(P, Q) ==
    IF P = Q
    THEN MulMod(3 * MulMod(P.x, P.x) + CurveA, ModInv(2 * P.y))
    ELSE MulMod(Q.y + FieldP - P.y, ModInv(Q.x + FieldP - P.x))

\* The third point of the line of slope l through P and Q, reflected.
ThirdPoint(P, Q, l) ==
    Let((MulMod(l, l) + 2 * FieldP - P.x - Q.x) % FieldP, LAMBDA x :
        Pt(x, (MulMod(l, P.x + FieldP - x) + FieldP - P.y) % FieldP))

PointAdd(P, Q) ==
    IF P.inf THEN Q
    ELSE IF Q.inf THEN P
    ELSE IF P.x = Q.x /\ (P.y + Q.y) % FieldP = 0 THEN Infinity
    ELSE Let(Slope(P, Q), LAMBDA l : ThirdPoint(P, Q, l))

RECURSIVE PointMult(_, _)
PointMult(P, k) ==
    IF k = 0 THEN Infinity
    ELSE Let(PointAdd(P, P), LAMBDA D :
         Let(PointMult(D, k \div 2), LAMBDA H :
             IF k % 2 = 1 THEN PointAdd(P, H) ELSE H))

\* Curve.ScalarMult(x, y, k): k is a big-endian scalar; the point at infinity
\* comes back as (0, 0).
ScalarMult(x, y, k) == PointMult(Pt(x, y), SetBytes(k))

\* ceil(BitSize / 8), the width of a marshalled coordinate.
ByteLen(curve) == (BitSize(curve) + 7) \div 8

\* elliptic.Marshal: the uncompressed SEC1 form 0x04 || X || Y.
Marshal(curve, x, y) ==
    <<4>> \o FillBytes(x, ByteLen(curve)) \o FillBytes(y, ByteLen(curve))

\* elliptic.Unmarshal: nil (ok = FALSE) unless data is an uncompressed point
\* of the right length whose coordinates are field elements on the curve.
Unmarshal(curve, data) ==
    LET n == ByteLen(curve)
        x == SetBytes(Slice(data, 1, 1 + n))
        y == SetBytes(Slice(data, 1 + n, 1 + 2 * n))
    IN  IF Len(data) # 1 + 2 * n \/ data[1] # 4
        THEN [ok |-> FALSE, x |-> 0, y |-> 0]
        ELSE IF x >= FieldP \/ y >= FieldP \/ ~IsOnCurve(x, y)
        THEN [ok |-> FALSE, x |-> 0, y |-> 0]
        ELSE [ok |-> TRUE, x |-> x, y |-> y]

----------------------------------------------------------------------------
(* The hash, MAC and block-cipher primitives, as a random oracle. *)

Hashes == {"SHA256", "SHA384", "SHA512"}

\* hash.Hash.Size
HashSize(h) ==
    CASE h = "SHA256" -> 32
      [] h = "SHA384" -> 48
      [] h = "SHA512" -> 64

\* hash.Hash.BlockSize
HashBlockSize(h) ==
    CASE h = "SHA256" -> 64
      [] h = "SHA384" -> 128
      [] h = "SHA512" -> 128

\* The domain of a query: the hash itself, HMAC under it, the block cipher.
HashTag(h) ==
    CASE h = "SHA256" -> 1
      [] h = "SHA384" -> 2
      [] h = "SHA512" -> 3
MacTag(h) == 10 + HashTag(h)
AesTag == 20

\* The table's index of query q, 0 when q was never asked.
Lookup(o, q) ==
    IF \E k \in 1..Len(o) : o[k] = q
    THEN CHOOSE k \in 1..Len(o) : o[k] = q
    ELSE 0

\* Ask q: the table afterwards and q's index in it.
Query(o, q) ==
    Let(Lookup(o, q), LAMBDA k :
        IF k # 0 THEN [o |-> o, id |-> k]
        ELSE [o |-> Append(o, q), id |-> Len(o) + 1])

\* The digest of the id-th distinct query, n bytes long.
Digest(id, n) == [j \in 1..n |-> id % 256]

\* hash.Write(data); hash.Sum(nil); hash.Reset()
HashSum(o, h, data) ==
    Let(Query(o, <<HashTag(h)>> \o data), LAMBDA r :
        [o |-> r.o, out |-> Digest(r.id, HashSize(h))])

----------------------------------------------------------------------------
(* The parameter table. *)

\* *ECIESParams: nil, or a value whose unset fields are "" and 0.
NilParams == [nil |-> TRUE, Hash |-> "", Cipher |-> "", BlockSize |-> 0, KeyLen |-> 0]

\* new(ECIESParams): a non-nil value with no field set.
EmptyParams == [nil |-> FALSE, Hash |-> "", Cipher |-> "", BlockSize |-> 0, KeyLen |-> 0]

ECIES_AES128_SHA256 ==
    [nil |-> FALSE, Hash |-> "SHA256", Cipher |-> "AES128", BlockSize |-> 16, KeyLen |-> 16]
ECIES_AES192_SHA384 ==
    [nil |-> FALSE, Hash |-> "SHA384", Cipher |-> "AES192", BlockSize |-> 16, KeyLen |-> 24]
ECIES_AES256_SHA512 ==
    [nil |-> FALSE, Hash |-> "SHA512", Cipher |-> "AES256", BlockSize |-> 16, KeyLen |-> 32]

\* ParamsFromCurve: the curve's default parameters, nil for a curve without.
ParamsFromCurve(curve) ==
    CASE curve = "P256" -> ECIES_AES128_SHA256
      [] curve = "P384" -> ECIES_AES192_SHA384
      [] curve = "P521" -> ECIES_AES256_SHA512
      [] OTHER -> NilParams

\* params.Cipher(key), aes.NewCipher: refuses a key that is no AES key.
CipherErr(params, key) ==
    IF Len(key) \in {16, 24, 32} THEN "nil" ELSE "KeySizeError"

----------------------------------------------------------------------------
(* Keys. *)

\* A private key that was never made (a nil *PrivateKey).
NoKey(err) ==
    [err |-> err, Curve |-> "", X |-> 0, Y |-> 0, D |-> 0, Params |-> NilParams]

\* PrivateKey.Public
Public(prv) == [Curve |-> prv.Curve, X |-> prv.X, Y |-> prv.Y, Params |-> prv.Params]

\* What a randomness source supplies: the scalar elliptic.GenerateKey draws
\* from it, the bytes generateIV reads from it, and where it fails, if it does.
RandSource(d, iv, fail) == [d |-> d, iv |-> iv, fail |-> fail]

\* A mutant of GenerateKey: a curve without default parameters is refused
\* when params is nil.
GenerateKeyStrict(rand, curve, params) ==
    IF rand.fail = "key" THEN NoKey("rand")
    ELSE IF params.nil /\ ParamsFromCurve(curve).nil
    THEN NoKey("ErrUnsupportedECIESParameters")
    ELSE LET pub == PointMult(BasePoint, rand.d)
         IN  [err |-> "nil", Curve |-> curve, X |-> pub.x, Y |-> pub.y, D |-> rand.d,
              Params |-> IF params.nil THEN ParamsFromCurve(curve) ELSE params]

\* GenerateKey(rand, curve, params)
GenerateKey(rand, curve, params) ==
    IF rand.fail = "key" THEN NoKey("rand")
    ELSE LET pub == PointMult(BasePoint, rand.d)
         IN  [err |-> "nil", Curve |-> curve, X |-> pub.x, Y |-> pub.y, D |-> rand.d,
              Params |-> IF params.nil THEN ParamsFromCurve(curve) ELSE params]

\* A mutant of GenerateShared: the x-coordinate as big.Int.Bytes gives it,
\* without the padding to the curve's width.
GenerateSharedUnpadded(prv, pub) ==
    IF prv.Curve # pub.Curve THEN [err |-> "ErrInvalidCurve", z |-> <<>>]
    ELSE [err |-> "nil", z |-> BigBytes(ScalarMult(pub.X, pub.Y, BigBytes(prv.D)).x)]

\* PrivateKey.GenerateShared(pub)
GenerateShared(prv, pub) ==
    IF prv.Curve # pub.Curve THEN [err |-> "ErrInvalidCurve", z |-> <<>>]
    ELSE LET P == ScalarMult(pub.X, pub.Y, BigBytes(prv.D))
         IN  [err |-> "nil", z |-> FillBytes(P.x, (BitSize(pub.Curve) + 7) \div 8)]

----------------------------------------------------------------------------
(* The key-derivation function. *)

\* incCounter: the 4-byte big-endian counter plus one, wrapping.
incCounter(ctr) ==
    IF ctr[4] # 255 THEN [ctr EXCEPT ![4] = ctr[4] + 1]
    ELSE IF ctr[3] # 255 THEN [ctr EXCEPT ![4] = 0, ![3] = ctr[3] + 1]
    ELSE IF ctr[2] # 255 THEN [ctr EXCEPT ![4] = 0, ![3] = 0, ![2] = ctr[2] + 1]
    ELSE [ctr EXCEPT ![4] = 0, ![3] = 0, ![2] = 0, ![1] = (ctr[1] + 1) % 256]

\* The sizes the allocator rounds a byte slice's capacity up to.
SizeClasses ==
    {8, 16, 24, 32, 48, 64, 80, 96, 112, 128, 144, 160, 176, 192, 208, 224, 240,
     256, 288, 320, 352, 384, 416, 448, 480, 512}

\* The capacity append gives a byte slice of capacity cap that must hold need.
GrowCap(cap, need) ==
    IF need <= cap THEN cap
    ELSE LET want == IF need > 2 * cap THEN need ELSE 2 * cap
         IN  IF \E c \in SizeClasses : c >= want
             THEN CHOOSE c \in SizeClasses : c >= want /\ \A e \in SizeClasses : e >= want => c <= e
             ELSE want

\* reps of concatKDF.
KDFReps(hash, kdLen) == ((kdLen + 7) * 8) \div (HashBlockSize(hash) * 8)

\* The loop of concatKDF from iteration i on: k grows by one digest of
\* counter || z || s1 per iteration, for i = 0 .. reps.
RECURSIVE KDFLoop(_, _, _, _, _, _, _, _, _)
KDFLoop(o, hash, z, s1, i, reps, counter, k, cap) ==
    IF i > reps THEN [o |-> o, k |-> k, cap |-> cap]
    ELSE Let(HashSum(o, hash, counter \o z \o s1), LAMBDA h :
         Let([k |-> k \o h.out, cap |-> GrowCap(cap, Len(k) + Len(h.out)),
              counter |-> incCounter(counter)], LAMBDA n :
             KDFLoop(h.o, hash, z, s1, i + 1, reps, n.counter, n.k, n.cap)))

\* concatKDF(hash, z, s1, kdLen): the final k[:kdLen] panics beyond the
\* capacity of k and reads the zeroed spare capacity beyond its length.
concatKDF(o, hash, z, s1, kdLen) ==
    LET reps == KDFReps(hash, kdLen)
    IN  IF reps \div 65536 >= 65536
        THEN [o |-> o, k |-> <<>>, err |-> "ErrKeyDataTooLong"]
        ELSE Let(KDFLoop(o, hash, z, s1, 0, reps, <<0, 0, 0, 1>>, <<>>, 0), LAMBDA l :
             IF kdLen > l.cap
             THEN [o |-> l.o, k |-> <<>>, err |-> "panic"]
             ELSE IF kdLen > Len(l.k)
             THEN [o |-> l.o, k |-> l.k \o Zeros(kdLen - Len(l.k)), err |-> "nil"]
             ELSE [o |-> l.o, k |-> Slice(l.k, 0, kdLen), err |-> "nil"])

----------------------------------------------------------------------------
(* The MAC and the symmetric layer. *)

\* A mutant of messageTag: the shared information is left out of the MAC.
messageTagNoShared(o, hash, km, msg, shared) ==
    Let(Query(o, <<MacTag(hash), Len(km)>> \o km \o msg), LAMBDA r :
        [o |-> r.o, out |-> Digest(r.id, HashSize(hash))])

\* A mutant of messageTag: the MAC leaves out the first byte of the message.
messageTagSkipFirst(o, hash, km, msg, shared) ==
    Let(Query(o, <<MacTag(hash), Len(km)>> \o km \o Tail(msg) \o shared), LAMBDA r :
        [o |-> r.o, out |-> Digest(r.id, HashSize(hash))])

\* messageTag(hash, km, msg, shared): HMAC over msg || shared under km.
messageTag(o, hash, km, msg, shared) ==
    Let(Query(o, <<MacTag(hash), Len(km)>> \o km \o msg \o shared), LAMBDA r :
        [o |-> r.o, out |-> Digest(r.id, HashSize(hash))])

\* The CTR key stream for n bytes: block b of it is the block cipher under
\* key applied to iv + b.
RECURSIVE KeyStream(_, _, _, _, _)
KeyStream(o, key, iv, b, n) ==
    IF n <= 0 THEN [o |-> o, out |-> <<>>]
    ELSE Let(Query(o, <<AesTag, Len(key)>> \o key \o iv \o <<b>>), LAMBDA r :
         Let(KeyStream(r.o, key, iv, b + 1, n - Len(iv)), LAMBDA rest :
             [o |-> rest.o,
              out |-> SubSeq(Digest(r.id, Len(iv)), 1, Min(n, Len(iv))) \o rest.out]))

\* cipher.Stream.XORKeyStream
XORKeyStream(ks, src) == [j \in 1..Len(src) |-> XorByte(ks[j], src[j])]

\* generateIV(params, rand)
generateIV(params, rand) ==
    IF rand.fail = "iv" THEN [err |-> "rand", iv |-> Zeros(params.BlockSize)]
    ELSE [err |-> "nil", iv |-> SubSeq(rand.iv, 1, params.BlockSize)]

\* symEncrypt(rand, params, key, m)
symEncrypt(o, rand, params, key, m) ==
    LET g == generateIV(params, rand)
    IN  IF CipherErr(params, key) # "nil"
        THEN [o |-> o, ct |-> <<>>, err |-> CipherErr(params, key)]
        ELSE IF g.err # "nil"
        THEN [o |-> o, ct |-> <<>>, err |-> g.err]
        ELSE Let(KeyStream(o, key, g.iv, 0, Len(m)), LAMBDA ks :
             [o |-> ks.o, ct |-> g.iv \o XORKeyStream(ks.out, m), err |-> "nil"])

\* A mutant of symDecrypt: the IV is taken from the end of the blob.
symDecryptTailIV(o, params, key, ct, cap) ==
    LET iv == Slice(ct, Len(ct) - params.BlockSize, Len(ct))
    IN  IF Len(ct) < params.BlockSize
        THEN [o |-> o, m |-> <<>>, err |-> "panic"]
        ELSE Let(KeyStream(o, key, iv, 0, Len(ct) - params.BlockSize), LAMBDA ks :
             [o |-> ks.o, err |-> "nil",
              m |-> XORKeyStream(ks.out, Slice(ct, 0, Len(ct) - params.BlockSize))])

\* symDecrypt(params, key, ct), for a blob ct whose slice has capacity cap:
\* ct[:BlockSize] panics beyond the capacity, make panics on a negative length.
symDecrypt(o, params, key, ct, cap) ==
    LET iv == Slice(ct, 0, params.BlockSize)
    IN  IF CipherErr(params, key) # "nil"
        THEN [o |-> o, m |-> <<>>, err |-> CipherErr(params, key)]
        ELSE IF params.BlockSize > cap \/ Len(ct) - params.BlockSize < 0
        THEN [o |-> o, m |-> <<>>, err |-> "panic"]
        ELSE Let(KeyStream(o, key, iv, 0, Len(ct) - params.BlockSize), LAMBDA ks :
             [o |-> ks.o, err |-> "nil",
              m |-> XORKeyStream(ks.out, Slice(ct, params.BlockSize, Len(ct)))])

----------------------------------------------------------------------------
(* The ECIES pipeline. *)

\* The parameters bound to pub, or the curve's default (nil when none).
ResolveParams(pub) ==
    IF pub.Params.nil THEN ParamsFromCurve(pub.Curve) ELSE pub.Params

\* Encrypt(rand, pub, m, s1, s2)
Encrypt(o, rand, pub, m, s1, s2) ==
    LET params == ResolveParams(pub)
        fail(o1, e) == [o |-> o1, ct |-> <<>>, err |-> e]
    IN  IF params.nil THEN fail(o, "ErrUnsupportedECIESParameters")
        ELSE
        Let(GenerateKey(rand, pub.Curve, params), LAMBDA R :
        IF R.err # "nil" THEN fail(o, R.err)
        ELSE IF params.Hash = "" THEN fail(o, "panic")
        ELSE
        Let(GenerateShared(R, pub), LAMBDA sh :
        IF sh.err # "nil" THEN fail(o, sh.err)
        ELSE
        Let(concatKDF(o, params.Hash, sh.z, s1, params.KeyLen + params.KeyLen), LAMBDA K :
        IF K.err # "nil" THEN fail(K.o, K.err)
        ELSE
        Let(HashSum(K.o, params.Hash, Slice(K.k, params.KeyLen, Len(K.k))), LAMBDA Km :
        Let(symEncrypt(Km.o, rand, params, Slice(K.k, 0, params.KeyLen), m), LAMBDA em :
        IF em.err # "nil" THEN fail(em.o, em.err)
        ELSE IF Len(em.ct) <= params.BlockSize THEN fail(em.o, "nil")
        ELSE
        Let(messageTag(em.o, params.Hash, Km.out, em.ct, s2), LAMBDA d :
            [o |-> d.o, err |-> "nil",
             ct |-> Marshal(pub.Curve, R.X, R.Y) \o em.ct \o d.out]))))))

\* mStart of Decrypt: where the body begins, by the leading byte.
MStart(lead, kLen) == IF lead \in {2, 3} THEN 1 + kLen ELSE 1 + 2 * kLen

\* A mutant of FrameErr: the length is checked before the leading byte.
FrameErrLengthFirst(c, kLen, hLen) ==
    IF Len(c) < MStart(c[1], kLen) + hLen + 1 THEN "ErrInvalidMessage"
    ELSE IF c[1] \notin {2, 3, 4} THEN "ErrInvalidPublicKey"
    ELSE "nil"

\* The structural checks of Decrypt on a non-empty c: the switch on the
\* leading byte, then the length check.
FrameErr(c, kLen, hLen) ==
    IF c[1] \notin {2, 3, 4} THEN "ErrInvalidPublicKey"
    ELSE IF Len(c) < MStart(c[1], kLen) + hLen + 1 THEN "ErrInvalidMessage"
    ELSE "nil"

\* Decrypt(prv, c, s1, s2)
Decrypt(o, prv, c, s1, s2) ==
    LET pub == Public(prv)
        params == ResolveParams(pub)
        hLen == HashSize(params.Hash)
        kLen == (BitSize(pub.Curve) + 7) \div 8
        mStart == MStart(c[1], kLen)
        mEnd == Len(c) - hLen
        fail(o1, e) == [o |-> o1, m |-> <<>>, err |-> e]
    IN  IF Len(c) = 0 THEN fail(o, "ErrInvalidMessage")
        ELSE IF params.nil THEN fail(o, "ErrUnsupportedECIESParameters")
        ELSE IF params.Hash = "" THEN fail(o, "panic")
        ELSE IF FrameErr(c, kLen, hLen) # "nil" THEN fail(o, FrameErr(c, kLen, hLen))
        ELSE
        Let(Unmarshal(pub.Curve, Slice(c, 0, mStart)), LAMBDA P :
        IF ~P.ok THEN fail(o, "ErrInvalidPublicKey")
        ELSE IF ~IsOnCurve(P.x, P.y) THEN fail(o, "ErrInvalidCurve")
        ELSE
        Let(GenerateShared(prv, [Curve |-> pub.Curve, X |-> P.x, Y |-> P.y,
                                 Params |-> NilParams]), LAMBDA sh :
        IF sh.err # "nil" THEN fail(o, sh.err)
        ELSE
        Let(concatKDF(o, params.Hash, sh.z, s1, params.KeyLen + params.KeyLen), LAMBDA K :
        IF K.err # "nil" THEN fail(K.o, K.err)
        ELSE
        Let(HashSum(K.o, params.Hash, Slice(K.k, params.KeyLen, Len(K.k))), LAMBDA Km :
        Let(messageTag(Km.o, params.Hash, Km.out, Slice(c, mStart, mEnd), s2), LAMBDA d :
        IF Slice(c, mEnd, Len(c)) # d.out THEN fail(d.o, "ErrInvalidMessage")
        ELSE symDecrypt(d.o, params, Slice(K.k, 0, params.KeyLen),
                        Slice(c, mStart, mEnd), Len(c) - mStart))))))

\* A frame built by someone who knows only the recipient's public key: the
\* sender's steps of Encrypt (ephemeral key, shared secret, key derivation,
\* tag), with a body of the builder's choice in the place of symEncrypt's
\* output.
Forge(o, rand, pub, body, s1, s2) ==
    LET params == ResolveParams(pub)
    IN  Let(GenerateKey(rand, pub.Curve, params), LAMBDA R :
        Let(GenerateShared(R, pub), LAMBDA sh :
        Let(concatKDF(o, params.Hash, sh.z, s1, params.KeyLen + params.KeyLen), LAMBDA K :
        Let(HashSum(K.o, params.Hash, Slice(K.k, params.KeyLen, Len(K.k))), LAMBDA Km :
        Let(messageTag(Km.o, params.Hash, Km.out, body, s2), LAMBDA d :
            [o |-> d.o, ct |-> Marshal(pub.Curve, R.X, R.Y) \o body \o d.out])))))

----------------------------------------------------------------------------
(* Key serialization. *)

\* oidFromNamedCurve / namedCurveFromOID: the four named curves have OIDs.
CurveOID(curve) ==
    CASE curve = "P224" -> <<1, 3, 132, 0, 33>>
      [] curve = "P256" -> <<1, 2, 840, 10045, 3, 1, 7>>
      [] curve = "P384" -> <<1, 3, 132, 0, 34>>
      [] curve = "P521" -> <<1, 3, 132, 0, 35>>

namedCurveFromOID(oid) == CHOOSE curve \in Curves : CurveOID(curve) = oid

idEcPublicKeySupplemented == <<1, 2, 840, 10045, 2, 0>>

\* The supplements' algorithm identifiers; <<>> is an optional field left out.
secgScheme == <<1, 3, 132, 1>>
asnNISTConcatenationKDF == secgScheme \o <<17, 1>>
hmacFull == secgScheme \o <<22>>

\* paramsToASNECDH: the ECDH-with-KDF identifier of the parameters' hash.
paramsToASNECDH(params) ==
    CASE params.Hash = "SHA256" -> secgScheme \o <<11, 1>>
      [] params.Hash = "SHA384" -> secgScheme \o <<11, 2>>
      [] params.Hash = "SHA512" -> secgScheme \o <<11, 3>>
      [] OTHER -> <<>>

\* paramsToASNECIES: the ECIES suite of the parameters.
paramsToASNECIES(params) ==
    [KDF |-> asnNISTConcatenationKDF,
     Sym |-> CASE params.KeyLen = 16 -> secgScheme \o <<21, 0>>
               [] params.KeyLen = 24 -> secgScheme \o <<21, 1>>
               [] params.KeyLen = 32 -> secgScheme \o <<21, 2>>
               [] OTHER -> <<>>,
     MAC |-> hmacFull]

NoSuite == [KDF |-> <<>>, Sym |-> <<>>, MAC |-> <<>>]

\* marshalSubjectPublicKeyInfo / MarshalPublic: the structure handed to the
\* DER encoder, which keeps it as it is.
MarshalPublic(pub) ==
    [Algorithm |-> idEcPublicKeySupplemented,
     ECDomain |-> CurveOID(pub.Curve),
     ECDH |-> IF pub.Params.nil THEN <<>> ELSE paramsToASNECDH(pub.Params),
     ECIES |-> IF pub.Params.nil THEN NoSuite ELSE paramsToASNECIES(pub.Params),
     PublicKey |-> Marshal(pub.Curve, pub.X, pub.Y)]

\* asnECIEStoParams(asn, params): what params points to after the call. The
\* pointer itself is the callee's copy: the caller's stays non-nil.
asnECIEStoParams(asn, params) ==
    IF asn.KDF # asnNISTConcatenationKDF \/ asn.MAC # hmacFull THEN params
    ELSE CASE asn.Sym = secgScheme \o <<21, 0>> ->
                [params EXCEPT !.KeyLen = 16, !.BlockSize = 16, !.Cipher = "AES128"]
           [] asn.Sym = secgScheme \o <<21, 1>> ->
                [params EXCEPT !.KeyLen = 24, !.BlockSize = 16, !.Cipher = "AES192"]
           [] asn.Sym = secgScheme \o <<21, 2>> ->
                [params EXCEPT !.KeyLen = 32, !.BlockSize = 16, !.Cipher = "AES256"]
           [] OTHER -> params

\* asnECDHtoParams(asn, params): what params points to after the call.
asnECDHtoParams(asn, params) ==
    CASE asn = secgScheme \o <<11, 1>> -> [params EXCEPT !.Hash = "SHA256"]
      [] asn = secgScheme \o <<11, 2>> -> [params EXCEPT !.Hash = "SHA384"]
      [] asn = secgScheme \o <<11, 3>> -> [params EXCEPT !.Hash = "SHA512"]
      [] OTHER -> params

NoPub == [Curve |-> "", X |-> 0, Y |-> 0, Params |-> NilParams]

\* UnmarshalPublic(in)
UnmarshalPublic(subj) ==
    LET curve == namedCurveFromOID(subj.ECDomain)
        P == Unmarshal(curve, subj.PublicKey)
        p0 == EmptyParams
        p1 == asnECIEStoParams(subj.ECIES, p0)
        p2 == asnECDHtoParams(subj.ECDH, p1)
    IN  IF subj.Algorithm # idEcPublicKeySupplemented
        THEN [err |-> "ErrInvalidPublicKey", pub |-> NoPub]
        ELSE IF ~P.ok
        THEN [err |-> "ErrInvalidPublicKey",
              pub |-> [Curve |-> curve, X |-> 0, Y |-> 0, Params |-> NilParams]]
        ELSE IF p2.nil
        THEN [err |-> IF ParamsFromCurve(curve).nil THEN "ErrInvalidPublicKey" ELSE "nil",
              pub |-> [Curve |-> curve, X |-> P.x, Y |-> P.y,
                       Params |-> ParamsFromCurve(curve)]]
        ELSE [err |-> "nil",
              pub |-> [Curve |-> curve, X |-> P.x, Y |-> P.y, Params |-> p2]]

----------------------------------------------------------------------------
(* State: the oracle's table, the arguments of the recipient's GenerateKey *)
(* call and the key it returned, a peer's key, the last Encrypt and        *)
(* Decrypt calls with their results, the last key agreement, an exported   *)
(* and a re-imported public key, the last direct concatKDF call.           *)

NoGen == [curve |-> "", params |-> NilParams, fail |-> "none"]

NoEnc ==
    [done |-> FALSE, to |-> "", fail |-> "none", m |-> <<>>, s1 |-> <<>>,
     s2 |-> <<>>, ct |-> <<>>, err |-> "nil"]

NoDec ==
    [done |-> FALSE, how |-> "", pos |-> 0, c |-> <<>>, s1 |-> <<>>, s2 |-> <<>>,
     m |-> <<>>, err |-> "nil"]

NoEcdh == [done |-> FALSE, ab |-> <<>>, errAB |-> "nil", ba |-> <<>>, errBA |-> "nil"]

NoDer == [set |-> FALSE, subj |-> MarshalPublic([NoPub EXCEPT !.Curve = "P256"])]

NoImp == [done |-> FALSE, err |-> "nil", pub |-> NoPub]

NoKdf == [done |-> FALSE, hash |-> "", kdLen |-> 0, k |-> <<>>, err |-> "nil"]

Init ==
    /\ oracle = <<>>
    /\ gen = NoGen
    /\ rcpt = NoKey("unset")
    /\ peer = NoKey("unset")
    /\ enc = NoEnc
    /\ dec = NoDec
    /\ ecdh = NoEcdh
    /\ der = NoDer
    /\ imp = NoImp
    /\ kdf = NoKdf

----------------------------------------------------------------------------
(* Inputs. *)

\* Private scalars the recipient's randomness yields: 2, and the group
\* order less one (the negative of the base point).
KeyScalars == {2, 3658}

\* Scalars the randomness yields for an ephemeral or a peer's key:
\* 2 * 3259 G has x = 0 (a shared secret of zero bytes only), and
\* 15 G = (3559, 912) has the point (3372, 912) one byte of X away.
EphScalars == {3259, 15}

IVs == {Zeros(16), [j \in 1..16 |-> 16 * j - 1]}

LongText == [j \in 1..MaxMsgLen |-> 96 + j]

Plaintexts == {<<>>, <<0>>, LongText}

SharedInfos == {<<>>, <<99, 49>>, <<99, 50>>}

ExplicitParams == {NilParams, ECIES_AES128_SHA256}

KeyRands == {RandSource(d, Zeros(16), "none") : d \in KeyScalars}
               \cup {RandSource(2, Zeros(16), "key")}

PeerRands == {RandSource(d, Zeros(16), "none") : d \in EphScalars}

EncRands == {RandSource(d, iv, "none") : d \in EphScalars, iv \in IVs}
               \cup {RandSource(7, Zeros(16), f) : f \in {"key", "iv"}}

\* The inputs of the runs that alter the frame in transit.
WireKeyRands == {RandSource(2, Zeros(16), "none")}
WireEncRands == {RandSource(d, [j \in 1..16 |-> 16 * j - 1], "none") : d \in EphScalars}

\* Bytes put in the place of byte b of a frame: its neighbours, the
\* extremes and the other forms' leading bytes.
TamperValues(b) ==
    {(b + 1) % 256, (b + 128) % 256, 0, 2, 3, 255} \ {b}

\* The positions of the two low-order bytes of each coordinate in a point
\* prefix with coordinates of kLen bytes: the bytes in which the elements of
\* the stand-in field differ.
LowCoordBytes(kLen) == {kLen, 1 + kLen, 2 * kLen, 1 + 2 * kLen}

\* Bytes put in the place of byte i of frame c: every other value for a
\* low-order coordinate byte, TamperValues elsewhere.
TamperAt(c, i, kLen) ==
    IF i \in LowCoordBytes(kLen) THEN (0..255) \ {c[i]} ELSE TamperValues(c[i])

\* Leading bytes of a frame made up by a third party.
LeadBytes == {0, 2, 3, 4, 5}

\* Lengths around the two thresholds of Decrypt's length check.
NearLens(kLen, hLen) ==
    {0, 1} \cup {1 + kLen + hLen + 1 + e : e \in (0 - MaxCut)..MaxCut}
           \cup {1 + 2 * kLen + hLen + 1 + e : e \in (0 - MaxCut)..MaxCut}

----------------------------------------------------------------------------
(* Operations. *)

\* The recipient makes a key: GenerateKey(rand, curve, params).
GenKey(Rands, Cs, Ps) ==
    /\ rcpt.err = "unset"
    /\ \E rand \in Rands, curve \in Cs, params \in Ps :
          /\ rcpt' = GenerateKey(rand, curve, params)
          /\ gen' = [curve |-> curve, params |-> params, fail |-> rand.fail]
    /\ UNCHANGED <<oracle, peer, enc, dec, ecdh, der, imp, kdf>>

\* A peer makes a key.
GenPeer ==
    /\ peer.err = "unset"
    /\ \E rand \in PeerRands, curve \in Curves :
          peer' = GenerateKey(rand, curve, NilParams)
    /\ UNCHANGED <<oracle, gen, rcpt, enc, dec, ecdh, der, imp, kdf>>

\* Both sides of a key agreement: A.GenerateShared(B.Public()) and
\* B.GenerateShared(A.Public()).
Agree ==
    /\ rcpt.err = "nil" /\ peer.err = "nil" /\ ~ecdh.done
    /\ \E ab \in {GenerateShared(rcpt, Public(peer))},
          ba \in {GenerateShared(peer, Public(rcpt))} :
           ecdh' = [done |-> TRUE, ab |-> ab.z, errAB |-> ab.err,
                    ba |-> ba.z, errBA |-> ba.err]
    /\ UNCHANGED <<oracle, gen, rcpt, peer, enc, dec, der, imp, kdf>>

\* Encrypt(rand, pub, m, s1, s2), its arguments and its results recorded.
EncryptCall(to, pub, Ms, S1s, S2s, Rands) ==
    \E rand \in Rands, m \in Ms, s1 \in S1s, s2 \in S2s :
       \E r \in {Encrypt(oracle, rand, pub, m, s1, s2)} :
           /\ enc' = [done |-> TRUE, to |-> to, fail |-> rand.fail, m |-> m,
                      s1 |-> s1, s2 |-> s2, ct |-> r.ct, err |-> r.err]
           /\ oracle' = r.o

\* A sender encrypts to the recipient's public key.
EncryptTo(Ms, S1s, S2s, Rands) ==
    /\ rcpt.err = "nil" /\ ~enc.done
    /\ EncryptCall("rcpt", Public(rcpt), Ms, S1s, S2s, Rands)
    /\ UNCHANGED <<gen, rcpt, peer, dec, ecdh, der, imp, kdf>>

\* The recipient decrypts c, which reached it in the way how (at pos).
DecryptOf(how, pos, c, s1, s2) ==
    \E r \in {Decrypt(oracle, rcpt, c, s1, s2)} :
        /\ dec' = [done |-> TRUE, how |-> how, pos |-> pos, c |-> c, s1 |-> s1,
                   s2 |-> s2, m |-> r.m, err |-> r.err]
        /\ oracle' = r.o
        /\ UNCHANGED <<gen, rcpt, peer, enc, ecdh, der, imp, kdf>>

\* The frame Encrypt returned reaches the recipient as it is.
DecryptIntact ==
    /\ enc.done /\ enc.to = "rcpt" /\ enc.err = "nil" /\ ~dec.done
    /\ \E s1 \in SharedInfos, s2 \in SharedInfos :
          DecryptOf("intact", 0, enc.ct, s1, s2)

\* One byte of the frame is replaced in transit.
DecryptTampered ==
    /\ enc.done /\ enc.to = "rcpt" /\ enc.err = "nil" /\ ~dec.done
    /\ \E i \in 1..Len(enc.ct) : \E v \in TamperAt(enc.ct, i, ByteLen(rcpt.Curve)) :
          DecryptOf("tamper", i, [enc.ct EXCEPT ![i] = v], enc.s1, enc.s2)

\* The frame loses its end in transit.
DecryptTruncated ==
    /\ enc.done /\ enc.to = "rcpt" /\ enc.err = "nil" /\ ~dec.done
    /\ \E n \in NearLens(ByteLen(rcpt.Curve), HashSize(ResolveParams(Public(rcpt)).Hash))
                   \cup {Len(enc.ct) - e : e \in 1..MaxCut} :
          /\ 0 <= n /\ n < Len(enc.ct)
          /\ DecryptOf("trunc", n, SubSeq(enc.ct, 1, n), enc.s1, enc.s2)

\* A third party's bytes reach the recipient.
DecryptInjected ==
    /\ rcpt.err = "nil" /\ ~enc.done /\ ~dec.done
    /\ \E lead \in LeadBytes :
       \E n \in NearLens(ByteLen(rcpt.Curve),
                         IF ResolveParams(Public(rcpt)).nil THEN 0
                         ELSE HashSize(ResolveParams(Public(rcpt)).Hash)) :
          DecryptOf("inject", n, IF n = 0 THEN <<>> ELSE <<lead>> \o Zeros(n - 1),
                    <<>>, <<>>)

\* Body lengths of built frames: below, at and above the block size.
ForgedLens(blockSize) == 0..(blockSize + MaxCut)

\* The bytes of a built body of n bytes.
ForgedBody(n) == [j \in 1..n |-> 200 + j]

\* A frame built for the recipient, with a body of pos bytes and a tag that
\* verifies, reaches the recipient.
DecryptForged ==
    /\ rcpt.err = "nil" /\ ~ResolveParams(Public(rcpt)).nil /\ ~dec.done
    /\ \E rand \in PeerRands, s2 \in {<<>>, <<99, 50>>} :
       \E n \in ForgedLens(ResolveParams(Public(rcpt)).BlockSize) :
       \E f \in {Forge(oracle, rand, Public(rcpt), ForgedBody(n), <<>>, s2)} :
       \E r \in {Decrypt(f.o, rcpt, f.ct, <<>>, s2)} :
           /\ dec' = [done |-> TRUE, how |-> "forge", pos |-> n, c |-> f.ct,
                      s1 |-> <<>>, s2 |-> s2, m |-> r.m, err |-> r.err]
           /\ oracle' = r.o
    /\ UNCHANGED <<gen, rcpt, peer, enc, ecdh, der, imp, kdf>>

\* A third party's bytes reach a recipient whose key has no parameters.
DecryptWithoutParams ==
    /\ rcpt.Params.nil
    /\ DecryptInjected

\* The recipient's public key, or a PublicKey value a caller built from its
\* curve and point alone, is exported: MarshalPublic(pub).
Export ==
    /\ rcpt.err = "nil" /\ ~der.set
    /\ \E bound \in BOOLEAN :
          der' = [set |-> TRUE,
                  subj |-> MarshalPublic(IF bound THEN Public(rcpt)
                                         ELSE [Public(rcpt) EXCEPT !.Params = NilParams])]
    /\ UNCHANGED <<oracle, gen, rcpt, peer, enc, dec, ecdh, imp, kdf>>

\* The exported key is imported: UnmarshalPublic(der).
Import ==
    /\ der.set /\ ~imp.done
    /\ \E r \in {UnmarshalPublic(der.subj)} :
           imp' = [done |-> TRUE, err |-> r.err, pub |-> r.pub]
    /\ UNCHANGED <<oracle, gen, rcpt, peer, enc, dec, ecdh, der, kdf>>

\* A sender encrypts to the imported key.
EncryptToImported ==
    /\ imp.done /\ imp.err = "nil" /\ ~enc.done
    /\ EncryptCall("imp", imp.pub, {LongText}, {<<>>}, {<<>>}, WireEncRands)
    /\ UNCHANGED <<gen, rcpt, peer, dec, ecdh, der, imp, kdf>>

\* concatKDF is called with a hash, a shared secret, s1 and a length.
CallKDF ==
    /\ ~kdf.done
    /\ \E hash \in Hashes, kdLen \in 0..MaxKdLen, s1 \in SharedInfos,
          z \in {FillBytes(9, 32), FillBytes(0, 66)} :
          \E r \in {concatKDF(oracle, hash, z, s1, kdLen)} :
              /\ kdf' = [done |-> TRUE, hash |-> hash, kdLen |-> kdLen, k |-> r.k,
                         err |-> r.err]
              /\ oracle' = r.o
    /\ UNCHANGED <<gen, rcpt, peer, enc, dec, ecdh, der, imp>>

----------------------------------------------------------------------------
(* Specifications. *)

\* Keys of every curve, encryption of every input, decryption of the frame
\* as sent under every pair of shared-info strings.
Next ==
    \/ GenKey(KeyRands, Curves, ExplicitParams)
    \/ EncryptTo(Plaintexts, SharedInfos, SharedInfos, EncRands)
    \/ DecryptIntact
    \/ DecryptWithoutParams

Spec == Init /\ [][Next]_vars

\* Frames altered in transit or made up: every byte position replaced,
\* the end cut off, a third party's bytes.
WireNext ==
    \/ GenKey(WireKeyRands, Curves, {NilParams})
    \/ EncryptTo({LongText}, {<<99, 49>>}, {<<>>}, WireEncRands)
    \/ DecryptTampered
    \/ DecryptTruncated
    \/ DecryptInjected

SpecWire == Init /\ [][WireNext]_vars

\* Key agreement between the recipient and a peer.
EcdhNext ==
    \/ GenKey(KeyRands, Curves, ExplicitParams)
    \/ GenPeer
    \/ Agree

SpecEcdh == Init /\ [][EcdhNext]_vars

\* Export and import of a public key, and encryption to the imported key.
ImportNext ==
    \/ GenKey(KeyRands, Curves, ExplicitParams)
    \/ Export
    \/ Import
    \/ EncryptToImported

SpecImport == Init /\ [][ImportNext]_vars

\* Direct calls of the key-derivation function.
KdfNext == CallKDF

SpecKdf == Init /\ [][KdfNext]_vars

\* Frames built by a third party for the recipient's public key.
ForgeNext ==
    \/ GenKey(KeyRands, Curves, ExplicitParams)
    \/ DecryptForged

SpecForge == Init /\ [][ForgeNext]_vars

----------------------------------------------------------------------------
(* Properties. *)

\* The curves with default parameters.
SupportedCurves == {"P256", "P384", "P521"}

\* The recipient's key is on a supported curve with its default parameters.
DefaultKey ==
    /\ rcpt.err = "nil"
    /\ rcpt.Curve \in SupportedCurves
    /\ rcpt.Params = ParamsFromCurve(rcpt.Curve)

\* The last Decrypt was given the frame the last Encrypt to the recipient
\* returned, with the shared-info strings s1 and s2.
DecryptedIntact(s1, s2) ==
    /\ enc.done /\ enc.to = "rcpt" /\ enc.err = "nil"
    /\ dec.done /\ dec.how = "intact" /\ dec.s1 = s1 /\ dec.s2 = s2

\* Length of the uncompressed point of the recipient's curve.
PointLen == 1 + 2 * ((BitSize(rcpt.Curve) + 7) \div 8)

\* C1: under a key of a supported curve with its default parameters, for a
\* plaintext of at least one byte and any shared-info strings, Encrypt
\* succeeds whenever the randomness source does, and Decrypt of its result
\* under the same strings returns the plaintext and no error.
C1_RoundTrip ==
    (DefaultKey /\ enc.done /\ enc.to = "rcpt" /\ Len(enc.m) >= 1) =>
        /\ enc.fail = "none" => enc.err = "nil"
        /\ DecryptedIntact(enc.s1, enc.s2) => dec.err = "nil" /\ dec.m = enc.m

C1_Witness ==
    /\ DefaultKey /\ rcpt.Curve = "P521"
    /\ DecryptedIntact(enc.s1, enc.s2)
    /\ enc.m = LongText /\ enc.s1 # <<>> /\ enc.s2 # <<>> /\ enc.s1 # enc.s2
    /\ dec.err = "nil" /\ dec.m = LongText

\* C2: for a plaintext of length 0 Encrypt returns a frame and no error, and
\* Decrypt of that frame under the same key and strings returns the empty
\* plaintext and no error.
C2_ZeroLength ==
    (DefaultKey /\ enc.done /\ enc.to = "rcpt" /\ enc.m = <<>> /\ enc.fail = "none") =>
        /\ enc.err = "nil"
        /\ Len(enc.ct) = PointLen + rcpt.Params.BlockSize + HashSize(rcpt.Params.Hash)
        /\ DecryptedIntact(enc.s1, enc.s2) => dec.err = "nil" /\ dec.m = <<>>

\* C4: Decrypt of a frame Encrypt returned, under the matching key but with
\* an s1 or an s2 other than the one used to encrypt, returns InvalidMessage
\* and no plaintext.
C4_SharedInfoBinding ==
    \A s1 \in SharedInfos, s2 \in SharedInfos :
        (DecryptedIntact(s1, s2) /\ (s1 # enc.s1 \/ s2 # enc.s2)) =>
            dec.err = "ErrInvalidMessage" /\ dec.m = <<>>

C4_Witness ==
    /\ DecryptedIntact(<<99, 50>>, enc.s2)
    /\ enc.s1 = <<99, 49>> /\ enc.m = LongText
    /\ dec.err = "ErrInvalidMessage"

\* C6: whenever Encrypt returns without error, the frame has
\* point_len + BlockSize + len(m) + hash.Size() bytes (118 for P-256 and a
\* 5-byte plaintext).
C6_FrameLength ==
    (enc.done /\ enc.to = "rcpt" /\ enc.err = "nil") =>
        LET params == ResolveParams(Public(rcpt))
        IN  /\ Len(enc.ct) = PointLen + params.BlockSize + Len(enc.m) + HashSize(params.Hash)
            /\ (DefaultKey /\ rcpt.Curve = "P256" /\ Len(enc.m) = 5) => Len(enc.ct) = 118

\* C7, as stated: GenerateKey with nil params on a curve without default
\* parameters returns an error, and never a key whose Params is absent
\* together with a nil error.
C7_RefusesCurveWithoutDefault ==
    /\ (rcpt.err # "unset" /\ gen.params.nil /\ ParamsFromCurve(gen.curve).nil) =>
           rcpt.err # "nil"
    /\ ~(rcpt.err = "nil" /\ rcpt.Params.nil)

\* C7, amended: GenerateKey fails exactly when the randomness source fails;
\* with nil params on a curve without default parameters it returns a key
\* whose Params is absent together with a nil error, and the absence is
\* reported when the key is used: Encrypt to it returns
\* UnsupportedECIESParameters and no ciphertext, and Decrypt with it returns
\* no plaintext and UnsupportedECIESParameters for every input but the empty
\* one, which is InvalidMessage before the parameters are looked at.
C7_AbsentParamsReportedOnUse ==
    /\ rcpt.err # "unset" => (rcpt.err = "nil" <=> gen.fail = "none")
    /\ (rcpt.err = "nil" /\ gen.params.nil /\ ParamsFromCurve(gen.curve).nil) =>
           rcpt.Params.nil
    /\ (rcpt.err = "nil" /\ rcpt.Params.nil /\ enc.done /\ enc.to = "rcpt") =>
           enc.err = "ErrUnsupportedECIESParameters" /\ enc.ct = <<>>
    /\ (rcpt.err = "nil" /\ rcpt.Params.nil /\ dec.done) =>
           /\ dec.m = <<>>
           /\ dec.err = IF dec.c = <<>> THEN "ErrInvalidMessage"
                        ELSE "ErrUnsupportedECIESParameters"

C7_Witness ==
    /\ rcpt.err = "nil" /\ rcpt.Curve = "P224" /\ rcpt.Params.nil
    /\ enc.done /\ enc.err = "ErrUnsupportedECIESParameters"
    /\ dec.done /\ Len(dec.c) > 1 /\ dec.c[1] = 4
    /\ dec.err = "ErrUnsupportedECIESParameters"

\* The point the first PointLen bytes of frame c decode to.
PrefixPoint(c) == Unmarshal(rcpt.Curve, SubSeq(c, 1, PointLen))

\* C3, as stated: a frame with any one byte replaced makes Decrypt return
\* InvalidMessage and no plaintext.
C3_AnyByteInvalidMessage ==
    (dec.done /\ dec.how = "tamper") => dec.err = "ErrInvalidMessage" /\ dec.m = <<>>

\* C3, amended: a frame with any one byte replaced never yields a
\* plaintext.  A replaced byte of the IV, the body or the tag makes Decrypt
\* return InvalidMessage.  A replaced byte of the ephemeral-point prefix
\* makes it return InvalidPublicKey when the prefix no longer decodes to a
\* point of the curve (always so for the leading byte and for a byte of Y),
\* and InvalidMessage when it decodes to another point of the curve.
C3_TamperDetection ==
    (dec.done /\ dec.how = "tamper") =>
        /\ dec.m = <<>>
        /\ IF dec.pos > PointLen
           THEN dec.err = "ErrInvalidMessage"
           ELSE IF dec.pos = 1 \/ dec.pos > 1 + ByteLen(rcpt.Curve)
                   \/ ~PrefixPoint(dec.c).ok
           THEN dec.err = "ErrInvalidPublicKey"
           ELSE dec.err = "ErrInvalidMessage"

C3_Witness ==
    /\ dec.done /\ dec.how = "tamper"
    /\ dec.pos > PointLen /\ dec.pos <= PointLen + 16
    /\ dec.err = "ErrInvalidMessage"

\* C8: under a key whose parameters resolve, an empty input yields
\* InvalidMessage; a leading byte outside {2, 3, 4} yields InvalidPublicKey
\* whatever the length; with a leading byte 2, 3 or 4, a length below
\* mStart + hash.Size() + 1 yields InvalidMessage.
C8_StructuralChecks ==
    (dec.done /\ ~ResolveParams(Public(rcpt)).nil) =>
        LET kLen == (BitSize(rcpt.Curve) + 7) \div 8
            hLen == HashSize(ResolveParams(Public(rcpt)).Hash)
            c == dec.c
        IN  /\ Len(c) = 0 => dec.err = "ErrInvalidMessage"
            /\ (Len(c) > 0 /\ c[1] \notin {2, 3, 4}) => dec.err = "ErrInvalidPublicKey"
            /\ (Len(c) > 0 /\ c[1] \in {2, 3} /\ Len(c) < 1 + kLen + hLen + 1) =>
                   dec.err = "ErrInvalidMessage"
            /\ (Len(c) > 0 /\ c[1] = 4 /\ Len(c) < 1 + 2 * kLen + hLen + 1) =>
                   dec.err = "ErrInvalidMessage"

C8_Witness ==
    /\ dec.done /\ dec.c = <<5>> /\ dec.err = "ErrInvalidPublicKey"
    /\ rcpt.Curve = "P384"

\* C5: for two private keys on the same curve both directions of the key
\* agreement succeed with the same byte string, of exactly ceil(bitsize/8)
\* bytes.
C5_EcdhSymmetry ==
    (ecdh.done /\ rcpt.Curve = peer.Curve) =>
        /\ ecdh.errAB = "nil" /\ ecdh.errBA = "nil"
        /\ ecdh.ab = ecdh.ba
        /\ Len(ecdh.ab) = (BitSize(rcpt.Curve) + 7) \div 8

C5_Witness ==
    /\ ecdh.done /\ rcpt.Curve = "P521" /\ peer.Curve = "P521"
    /\ rcpt.D # peer.D /\ ecdh.errAB = "nil"
    /\ ecdh.ab = Zeros(66) /\ ecdh.ba = Zeros(66)

\* C9: a DER public key without an ECIES parameter suite is imported with
\* the curve's default parameters, never with an unpopulated ECIESParams
\* value, and Encrypt can use the imported key.
C9_DefaultParamsOnImport ==
    (imp.done /\ imp.err = "nil" /\ der.subj.ECIES = NoSuite /\ der.subj.ECDH = <<>>) =>
        /\ imp.pub.Params = ParamsFromCurve(imp.pub.Curve)
        /\ imp.pub.Params # EmptyParams
        /\ (enc.done /\ enc.to = "imp" /\ imp.pub.Curve \in SupportedCurves) =>
               enc.err = "nil"

\* C10: for each of the three hashes and every kdLen >= 0, concatKDF's
\* iterations produce at least kdLen bytes and it returns exactly kdLen
\* bytes without failing.
C10_KdfLength ==
    kdf.done =>
        /\ (KDFReps(kdf.hash, kdf.kdLen) + 1) * HashSize(kdf.hash) >= kdf.kdLen
        /\ kdf.err = "nil"
        /\ Len(kdf.k) = kdf.kdLen

\* C11: Encrypt reports failure of the symmetric step.  Whenever symEncrypt
\* fails (its IV cannot be read) or returns em with len(em) <= BlockSize
\* (em is the IV followed by len(m) bytes, so this is the empty plaintext),
\* Encrypt returns a non-nil error; and Encrypt never returns a nil error
\* together with a nil or empty ciphertext.
C11_SymmetricFailureReported ==
    (enc.done /\ enc.to = "rcpt") =>
        /\ (~ResolveParams(Public(rcpt)).nil /\ enc.fail = "iv") => enc.err # "nil"
        /\ (~ResolveParams(Public(rcpt)).nil /\ enc.fail = "none" /\ Len(enc.m) = 0) =>
               enc.err # "nil"
        /\ ~(enc.err = "nil" /\ enc.ct = <<>>)

\* The values Decrypt returns as errors.
ErrorValues ==
    {"ErrInvalidMessage", "ErrInvalidPublicKey", "ErrInvalidCurve",
     "ErrUnsupportedECIESParameters", "ErrSharedKeyIsPointAtInfinity",
     "ErrKeyDataTooLong"}

\* C12: for a frame that passes the length check and whose tag verifies,
\* Decrypt hands symDecrypt a body of at least BlockSize bytes, so the IV
\* lies inside the body and the plaintext has len(body) - BlockSize bytes;
\* for a shorter body Decrypt returns an error value instead of failing.
C12_BodyHoldsIV ==
    (dec.done /\ dec.how = "forge" /\ dec.pos >= 1) =>
        LET blockSize == ResolveParams(Public(rcpt)).BlockSize
        IN  IF dec.pos >= blockSize
            THEN dec.err = "nil" /\ Len(dec.m) = dec.pos - blockSize
            ELSE dec.err \in ErrorValues /\ dec.m = <<>>

====
